---------------------------- MODULE Spec2Model ----------------------------
(* A model of the streaming convolution engine of ase-2024:                *)
(* src/src/ring_buffer.rs (RingBuffer), src/src/fast_convolver.rs          *)
(* (FastConvolver) and src/src/comb_filter.rs (CombFilter).  Samples are  *)
(* integers, so every sum is exact; the transform-domain product of        *)
(* fft_based_convolution is the circular                                   *)
(* convolution of the two zero-padded blocks, which is what the forward    *)
(* transform, the elementwise product and the normalised inverse compute.  *)
(* Cursors are 0-based as in the source; sequences are 1-based, so slot k  *)
(* of a Vec is element k + 1 of the sequence that models it.               *)
EXTENDS Integers, Sequences, FiniteSets, TLC

\* ------------------------------------------------------------- bounds
MaxIRLen == 3
MaxInLen == 2
MaxBlockSize == 2
MaxFlushLen == 3
MaxCalls == 4
MaxFlushes == 2
MaxCapacity == 3
MaxIndex == 4
FracDen == 2
TicksPerSecond == 2
MaxDelayTicks == 3
MaxCombSample == 2
MaxOlaIRLen == 4
MaxOlaInLen == 4
MaxOlaCalls == 2
MaxPartLen == 5
MaxGetSamples == 9
MaxDelayHalves == 6
MaxWidthHalves == 2
MaxChannels == 2
MaxVibBlock == 2
MaxVibStream == 4
MaxSetParams == 1

\* The sample values the inputs and impulse responses are drawn from.
SampleValues == {0, 1}

RECURSIVE SeqsUpTo(_, _)
SeqsUpTo(S, n) ==
    IF n = 0 THEN {<<>>}
    ELSE LET shorter == SeqsUpTo(S, n - 1)
         IN  shorter \cup {Append(s, v) : s \in {t \in shorter : Len(t) = n - 1}, v \in S}

ImpulseResponses == {s \in SeqsUpTo(SampleValues, MaxIRLen) : Len(s) >= 1}
Inputs == {s \in SeqsUpTo(SampleValues, MaxInLen) : Len(s) >= 1}

TimeDomain == [kind |-> "TimeDomain", block_size |-> 0]
FrequencyDomain(block_size) == [kind |-> "FrequencyDomain", block_size |-> block_size]
Modes == {TimeDomain} \cup {FrequencyDomain(b) : b \in 1..MaxBlockSize}

\* ------------------------------------------------------- RingBuffer<T>
Zeros(n) == [i \in 1..n |-> 0]

RingBuffer_new(cap) == [buffer |-> Zeros(cap), head |-> 0, tail |-> 0]

capacity(rb) == Len(rb.buffer)

\* reset that leaves the read cursor where it is.
reset_keeps_tail(rb) == [buffer |-> Zeros(Len(rb.buffer)), head |-> 0, tail |-> rb.tail]

RingBuffer_reset(rb) == [buffer |-> Zeros(Len(rb.buffer)), head |-> 0, tail |-> 0]

\* put with the write cursor advanced, as push does.
put_advances(rb, value) ==
    [rb EXCEPT !.buffer[rb.head + 1] = value,
               !.head = (rb.head + 1) % Len(rb.buffer)]

\* put: writes buffer[head]; no cursor moves.
put(rb, value) == [rb EXCEPT !.buffer[rb.head + 1] = value]

\* peek: reads buffer[tail].
peek(rb) == rb.buffer[rb.tail + 1]

\* get: reads buffer[(tail + offset) % capacity].
get(rb, offset) == rb.buffer[((rb.tail + offset) % capacity(rb)) + 1]

\* push with the write cursor left in place.
push_in_place(rb, value) == [rb EXCEPT !.buffer[rb.head + 1] = value]

\* push: only called on a buffer of capacity >= 1 (the callers below turn a
\* push on an empty Vec into the index-out-of-bounds panic it is).
push(rb, value) ==
    [rb EXCEPT !.buffer[rb.head + 1] = value,
               !.head = (rb.head + 1) % capacity(rb)]

\* pop with the read cursor advanced by two slots instead of one.
pop_skips_a_slot(rb) ==
    [value |-> rb.buffer[rb.tail + 1],
     rb |-> [rb EXCEPT !.tail = (rb.tail + 2) % capacity(rb)]]

\* pop: the value read and the buffer with the read cursor advanced.
pop(rb) ==
    [value |-> rb.buffer[rb.tail + 1],
     rb |-> [rb EXCEPT !.tail = (rb.tail + 1) % capacity(rb)]]

get_read_index(rb) == rb.tail

\* set_read_index with an index past the end clamped to the last slot
\* instead of wrapped.
set_read_index_clamped(rb, index) ==
    [rb EXCEPT !.tail = IF index >= capacity(rb) THEN capacity(rb) - 1 ELSE index]

set_read_index(rb, index) == [rb EXCEPT !.tail = index % capacity(rb)]

get_write_index(rb) == rb.head

set_write_index(rb, index) == [rb EXCEPT !.head = index % capacity(rb)]

\* len with `head > tail` for `head >= tail`: equal cursors count as a full
\* buffer.
len_equal_is_full(rb) ==
    IF rb.head > rb.tail THEN rb.head - rb.tail
    ELSE rb.head + capacity(rb) - rb.tail

len(rb) ==
    IF rb.head >= rb.tail THEN rb.head - rb.tail
    ELSE rb.head + capacity(rb) - rb.tail

\* The loop `for i in .. { self.buffer.push(values[i]) }`.
RECURSIVE push_all(_, _)
push_all(rb, values) ==
    IF values = <<>> THEN rb
    ELSE push_all(push(rb, Head(values)), Tail(values))

\* The loop `for i in 0..n { output[i] = self.buffer.pop() }`:
\* the values popped, in order, and the buffer afterwards.
RECURSIVE pop_n(_, _)
pop_n(rb, n) ==
    IF n = 0 THEN [values |-> <<>>, rb |-> rb]
    ELSE LET p == pop(rb)
             rest == pop_n(p.rb, n - 1)
         IN  [values |-> <<p.value>> \o rest.values, rb |-> rest.rb]

\* get_frac(offset) for the offset num / den >= 0, as a multiple of 1 / den:
\* floor = trunc(offset), frac = offset - floor = r / den, and the value
\* returned, floor_s * (1 - frac) + ceil_s * frac, is the result here over den.
\* get_frac_swapped has the two weights exchanged.
\* `as usize` of a float saturates: a negative value becomes 0.
trunc(num, den) == IF num >= 0 THEN num \div den ELSE 0 - ((0 - num) \div den)
as_usize(x) == IF x < 0 THEN 0 ELSE x

get_frac_swapped(rb, num, den) ==
    LET floor == trunc(num, den)
        floor_s == get(rb, as_usize(floor))
        ceil_s == get(rb, as_usize(floor) + 1)
        r == num - floor * den
    IN  floor_s * r + ceil_s * (den - r)

get_frac(rb, num, den) ==
    LET floor == trunc(num, den)
        floor_s == get(rb, as_usize(floor))
        ceil_s == get(rb, as_usize(floor) + 1)
        r == num - floor * den
    IN  floor_s * (den - r) + ceil_s * r

\* ------------------------------------------------------- FastConvolver
\* self is [impulse_response, buffer, mode]; every method returns the new
\* self, what it wrote to the caller's output buffer, and whether it panicked.
FastConvolver_new(ir, m) ==
    [impulse_response |-> ir, buffer |-> RingBuffer_new(Len(ir) - 1), mode |-> m]

reset(self) == [self EXCEPT !.buffer = RingBuffer_reset(self.buffer)]

\* flush: pops output.len() values.  pop indexes buffer[tail], which panics
\* on a buffer of capacity 0 before anything is changed.
\* flush_pops_one_less leaves the last slot of a non-empty output unwritten.
flush_pops_one_less(self, out_len) ==
    IF out_len > 0 /\ capacity(self.buffer) = 0
    THEN [self |-> self, output |-> Zeros(out_len), panicked |-> TRUE]
    ELSE LET p == pop_n(self.buffer, IF out_len = 0 THEN 0 ELSE out_len - 1)
         IN  [self |-> [self EXCEPT !.buffer = p.rb],
              output |-> p.values \o Zeros(out_len - Len(p.values)),
              panicked |-> FALSE]

flush(self, out_len) ==
    IF out_len > 0 /\ capacity(self.buffer) = 0
    THEN [self |-> self, output |-> Zeros(out_len), panicked |-> TRUE]
    ELSE LET p == pop_n(self.buffer, out_len)
         IN  [self |-> [self EXCEPT !.buffer = p.rb], output |-> p.values,
              panicked |-> FALSE]

\* The inner loop body with `i > j` for `i >= j`: the term input[0] * ir[i]
\* is left out.
td_term_strict(input, ir, i, j) ==
    IF i > j /\ i - j < Len(input) THEN input[i - j + 1] * ir[j + 1] ELSE 0

\* One pass of the inner loop body of time_domain_convolution:
\* what iteration (i, j) adds to full_output[i].
td_term(input, ir, i, j) ==
    IF i >= j /\ i - j < Len(input) THEN input[i - j + 1] * ir[j + 1] ELSE 0

\* full_output[i] after the first j iterations of the inner loop.
RECURSIVE td_accumulate(_, _, _, _)
td_accumulate(input, ir, i, j) ==
    IF j = 0 THEN 0
    ELSE td_accumulate(input, ir, i, j - 1) + td_term(input, ir, i, j - 1)

\* From with the first of the elements left out.
From_one_later(s, lo) == IF lo + 1 >= Len(s) THEN <<>> ELSE SubSeq(s, lo + 2, Len(s))

\* The elements of s from 0-based index lo on (s[lo..] in the source).
From(s, lo) == IF lo >= Len(s) THEN <<>> ELSE SubSeq(s, lo + 1, Len(s))

time_domain_convolution(self, input, out_len) ==
    LET ir == self.impulse_response
        full_output == [i \in 1..(out_len + Len(ir) - 1) |->
                            td_accumulate(input, ir, i - 1, Len(ir))]
        output == SubSeq(full_output, 1, out_len)
        pushed == From(full_output, Len(input))
    IN  IF pushed # <<>> /\ capacity(self.buffer) = 0
        THEN [self |-> self, output |-> output, panicked |-> TRUE]
        ELSE [self |-> [self EXCEPT !.buffer = push_all(self.buffer, pushed)],
              output |-> output, panicked |-> FALSE]

\* block_signals with the remainder left out: length / block_size blocks.
block_signals_without_remainder(input, block_size) ==
    LET num_blocks == Len(input) \div block_size
    IN  [i \in 1..num_blocks |->
            SubSeq(input, (i - 1) * block_size + 1, i * block_size)]

block_signals(input, block_size) ==
    LET length == Len(input)
        num_blocks == IF length % block_size = 0 THEN length \div block_size
                      ELSE length \div block_size + 1
        min(a, b) == IF a < b THEN a ELSE b
    IN  [i \in 1..num_blocks |->
            SubSeq(input, (i - 1) * block_size + 1, min(i * block_size, length))]

\* Element k (0-based) of the product of the two length-n transforms, brought
\* back by the inverse transform and divided by n: the circular convolution
\* of input_padded and ir_padded.
RECURSIVE circular_sum(_, _, _, _, _)
circular_sum(input_padded, ir_padded, n, k, a) ==
    IF a = 0 THEN 0
    ELSE circular_sum(input_padded, ir_padded, n, k, a - 1)
         + input_padded[a] * ir_padded[((k - (a - 1)) % n) + 1]

fft_based_convolution(self, input, out_len) ==
    LET ir == self.impulse_response
        n == Len(input) + Len(ir) - 1
        input_padded == [i \in 1..n |-> IF i <= Len(input) THEN input[i] ELSE 0]
        ir_padded == [i \in 1..n |-> IF i <= Len(ir) THEN ir[i] ELSE 0]
        fft_output_re == [k \in 1..n |->
                              circular_sum(input_padded, ir_padded, n, k - 1, n)]
        pushed == From(fft_output_re, Len(input))
    IN  IF out_len # Len(input)
        THEN \* copy_from_slice: the two slices differ in length
             [self |-> self, output |-> Zeros(out_len), panicked |-> TRUE]
        ELSE IF pushed # <<>> /\ capacity(self.buffer) = 0
        THEN [self |-> self, output |-> SubSeq(fft_output_re, 1, Len(input)),
              panicked |-> TRUE]
        ELSE [self |-> [self EXCEPT !.buffer = push_all(self.buffer, pushed)],
              output |-> SubSeq(fft_output_re, 1, Len(input)),
              panicked |-> FALSE]

\* full_output with block_convolution[s] added at begin + s, s in 0..count-1.
add_block(full_output, block_convolution, begin, count) ==
    [p \in 1..Len(full_output) |->
        IF p - 1 >= begin /\ p - 1 < begin + count
        THEN full_output[p] + block_convolution[p - begin]
        ELSE full_output[p]]

\* full_output with values written over the slots lo .. lo + Len(values) - 1.
write_slice(full_output, values, lo) ==
    [p \in 1..Len(full_output) |->
        IF p - 1 >= lo /\ p - 1 < lo + Len(values)
        THEN values[p - lo]
        ELSE full_output[p]]

\* The body of the double loop of overlap_add_freq for the pair (i, j), on
\* st = [self, full_output, panicked].
overlap_add_freq_step(st, i, j, input_block, ir_block, block_size) ==
    LET self1 == [st.self EXCEPT !.impulse_response = ir_block]
        conv == fft_based_convolution(self1, input_block, block_size)
        output_begin_index == i * Len(input_block) + j * Len(ir_block)
        output_end_index == output_begin_index + Len(input_block) - 1
        count == Len(input_block) - 1
        tail_len == Len(ir_block) - 1
        added == add_block(st.full_output, conv.output, output_begin_index, count)
        fl == flush(conv.self, tail_len)
    IN  IF conv.panicked
        THEN [self |-> conv.self, full_output |-> st.full_output, panicked |-> TRUE]
        ELSE IF count > 0 /\ output_begin_index + count > Len(st.full_output)
        THEN \* full_output[output_begin_index + s]: index out of bounds
             [self |-> conv.self, full_output |-> st.full_output, panicked |-> TRUE]
        ELSE IF output_end_index + tail_len > Len(st.full_output)
        THEN \* the slice handed to flush ends past full_output
             [self |-> conv.self, full_output |-> added, panicked |-> TRUE]
        ELSE IF fl.panicked
        THEN [self |-> fl.self, full_output |-> added, panicked |-> TRUE]
        ELSE [self |-> fl.self,
              full_output |-> write_slice(added, fl.output, output_end_index),
              panicked |-> FALSE]

\* The double loop, pair k = i * Len(ir_blocks) + j after pair k - 1.
RECURSIVE overlap_add_freq_loop(_, _, _, _, _)
overlap_add_freq_loop(st, k, input_blocks, ir_blocks, block_size) ==
    IF st.panicked \/ k = Len(input_blocks) * Len(ir_blocks) THEN st
    ELSE LET i == k \div Len(ir_blocks)
             j == k % Len(ir_blocks)
         IN  overlap_add_freq_loop(
                 overlap_add_freq_step(st, i, j, input_blocks[i + 1],
                                       ir_blocks[j + 1], block_size),
                 k + 1, input_blocks, ir_blocks, block_size)

overlap_add_freq(self, input, out_len, block_size) ==
    LET input_blocks == block_signals(input, block_size)
        ir_blocks == block_signals(self.impulse_response, block_size)
        full_output == Zeros(out_len + Len(self.impulse_response) - 1)
        st == overlap_add_freq_loop(
                  [self |-> self, full_output |-> full_output, panicked |-> FALSE],
                  0, input_blocks, ir_blocks, block_size)
    IN  [self |-> st.self,
         output |-> IF st.panicked THEN Zeros(out_len)
                    ELSE SubSeq(st.full_output, 1, out_len),
         panicked |-> st.panicked]

process(self, input, out_len) ==
    IF self.mode.kind = "TimeDomain"
    THEN time_domain_convolution(self, input, out_len)
    ELSE overlap_add_freq(self, input, out_len, self.mode.block_size)

\* What the body of the double loop of overlap_add does for the pair (i, j)
\* after its call of process, which returned conv.  The length of the slice
\* handed to flush is read from self.impulse_response as process left it: the
\* block ir_block on a TimeDomain engine, the last block of ir_block on a
\* FrequencyDomain engine.
overlap_add_after_process(st, conv, output_begin_index, block_size) ==
    LET output_end_index == output_begin_index + block_size
        tail_len == Len(conv.self.impulse_response) - 1
        added == add_block(st.full_output, conv.output, output_begin_index,
                           block_size)
        fl == flush(conv.self, tail_len)
    IN  IF conv.panicked
        THEN [self |-> conv.self, full_output |-> st.full_output, panicked |-> TRUE]
        ELSE IF output_begin_index + block_size > Len(st.full_output)
        THEN \* full_output[output_begin_index + s]: index out of bounds
             [self |-> conv.self, full_output |-> st.full_output, panicked |-> TRUE]
        ELSE IF output_end_index + tail_len > Len(st.full_output)
        THEN \* the slice handed to flush ends past full_output
             [self |-> conv.self, full_output |-> added, panicked |-> TRUE]
        ELSE IF fl.panicked
        THEN [self |-> fl.self, full_output |-> added, panicked |-> TRUE]
        ELSE [self |-> fl.self,
              full_output |-> write_slice(added, fl.output, output_end_index),
              panicked |-> FALSE]

\* The body of the double loop of overlap_add for the pair (i, j), on
\* st = [self, full_output, panicked].
overlap_add_step(st, i, j, input_block, ir_block, block_size) ==
    overlap_add_after_process(
        st,
        process([st.self EXCEPT !.impulse_response = ir_block], input_block,
                block_size),
        i * block_size + j * block_size, block_size)

\* The double loop, pair k = i * Len(ir_blocks) + j after pair k - 1.
RECURSIVE overlap_add_loop(_, _, _, _, _)
overlap_add_loop(st, k, input_blocks, ir_blocks, block_size) ==
    IF st.panicked \/ k = Len(input_blocks) * Len(ir_blocks) THEN st
    ELSE LET i == k \div Len(ir_blocks)
             j == k % Len(ir_blocks)
         IN  overlap_add_loop(
                 overlap_add_step(st, i, j, input_blocks[i + 1],
                                  ir_blocks[j + 1], block_size),
                 k + 1, input_blocks, ir_blocks, block_size)

\* overlap_add: output is the Vec returned, full_output.
overlap_add(self, input, out_len, block_size) ==
    LET input_blocks == block_signals(input, block_size)
        ir_blocks == block_signals(self.impulse_response, block_size)
        full_output == Zeros(out_len + Len(self.impulse_response) - 1)
        st == overlap_add_loop(
                  [self |-> self, full_output |-> full_output, panicked |-> FALSE],
                  0, input_blocks, ir_blocks, block_size)
    IN  [self |-> st.self,
         output |-> IF st.panicked THEN <<>> ELSE st.full_output,
         panicked |-> st.panicked]

\* ---------------------------------------------------------- CombFilter
\* A time in seconds is a whole number of ticks of 1 / TicksPerSecond s, and
\* a sample rate a whole number of Hz.  The cast `(sample_rate_hz * secs) as
\* usize` truncates, and saturates a negative product to 0.
SampleRates == {2, 3}

as_usize_samples(sample_rate_hz, ticks) ==
    IF sample_rate_hz * ticks < 0 THEN 0
    ELSE (sample_rate_hz * ticks) \div TicksPerSecond

CombFilter_new(filter_type, max_delay_ticks, sample_rate_hz, num_channels) ==
    LET delay_samples == as_usize_samples(sample_rate_hz, max_delay_ticks)
    IN  [filter_type |-> filter_type,
         sample_rate_hz |-> sample_rate_hz,
         num_channels |-> num_channels,
         gain |-> 0,
         delay_secs |-> max_delay_ticks,
         delay_samples |-> delay_samples,
         delay_buffers |-> [c \in 1..num_channels |-> Zeros(delay_samples)]]

CombFilter_reset(self) ==
    [self EXCEPT !.delay_buffers =
        [c \in 1..Len(self.delay_buffers) |-> Zeros(Len(self.delay_buffers[c]))]]

\* The sample loop of process on one channel: the delay buffer and the output
\* after the samples; read_idx is 0-based.
RECURSIVE comb_channel(_, _, _, _, _, _)
comb_channel(filter_type, gain, delay_buffer, read_idx, samples, output) ==
    IF samples = <<>> THEN [delay_buffer |-> delay_buffer, output |-> output]
    ELSE LET input_sample == Head(samples)
             output_sample == input_sample + delay_buffer[read_idx + 1] * gain
             stored == IF filter_type = "FIR" THEN input_sample ELSE output_sample
         IN  comb_channel(filter_type, gain,
                          [delay_buffer EXCEPT ![read_idx + 1] = stored],
                          (read_idx + 1) % Len(delay_buffer),
                          Tail(samples), Append(output, output_sample))

\* process on an input of Len(self.delay_buffers) channels, each delay buffer
\* of length >= 1: the new self and the output.
CombFilter_process(self, input) ==
    LET ch(c) == comb_channel(self.filter_type, self.gain, self.delay_buffers[c],
                              self.delay_samples % Len(self.delay_buffers[c]),
                              input[c], <<>>)
    IN  [self |-> [self EXCEPT !.delay_buffers =
                        [c \in 1..Len(input) |-> ch(c).delay_buffer]],
         output |-> [c \in 1..Len(input) |-> ch(c).output]]

\* set_param: the new self and whether the call returned Ok.  value is a
\* gain, or a delay in ticks.
set_param(self, param, value) ==
    IF param = "Gain"
    THEN [self |-> [self EXCEPT !.gain = value], ok |-> TRUE]
    ELSE LET stored == [self EXCEPT !.delay_secs = value]
             delay_samples == as_usize_samples(self.sample_rate_hz, value)
         IN  IF delay_samples > self.delay_samples
             THEN [self |-> stored, ok |-> FALSE]
             ELSE [self |-> [stored EXCEPT !.delay_samples =
                                as_usize_samples(stored.sample_rate_hz,
                                                 stored.delay_secs)],
                   ok |-> TRUE]

get_param(self, param) == IF param = "Gain" THEN self.gain ELSE self.delay_secs

\* ----------------------------------------------------------------- LFO
\* Sample rates and frequencies are whole numbers of Hz for which the
\* wavetable has 1, 2 or 4 entries, so that sin(2 * pi * i / size) is one of
\* 0, 1, -1: the table holds the exact values, where the f32 table holds them to
\* within rounding (-8.7e-8 for sin(pi)).
LfoSampleRates == {4}
LfoFrequencies == {1, 2, 3, 4}
Amplitudes == {1, 2}

\* sin(2 * pi * i / size) for a size that divides 4.
sin_of_turn(i, size) ==
    LET quarter == ((4 * i) \div size) % 4
    IN  IF quarter = 1 THEN 1 ELSE IF quarter = 3 THEN -1 ELSE 0

\* `(sample_rate / frequency) as usize`, and the loop that fills a new
\* RingBuffer of that size by push.
wavetable_of(sample_rate, frequency, amplitude) ==
    LET wavetable_size == sample_rate \div frequency
    IN  push_all(RingBuffer_new(wavetable_size),
                 [i \in 1..wavetable_size |->
                      amplitude * sin_of_turn(i - 1, wavetable_size)])

\* LFO::new stores amplitude: 1.0 whatever amplitude it is given.
LFO_new(sample_rate, frequency, amplitude) ==
    [sample_rate |-> sample_rate,
     wavetable |-> wavetable_of(sample_rate, frequency, amplitude),
     phase |-> 0,
     frequency |-> frequency,
     amplitude |-> 1]

set_frequency(self, frequency) ==
    [self EXCEPT !.frequency = frequency,
                 !.wavetable = wavetable_of(self.sample_rate, frequency,
                                            self.amplitude)]

set_amplitude(self, amplitude) ==
    [self EXCEPT !.amplitude = amplitude,
                 !.wavetable = wavetable_of(self.sample_rate, self.frequency,
                                            amplitude)]

\* get_sample without the push that follows the pop.
get_sample_without_push(self) ==
    [value |-> peek(self.wavetable),
     self |-> [self EXCEPT !.wavetable = pop(self.wavetable).rb]]

\* get_sample: peek, pop, push of the value read; the value and the new self.
get_sample(self) ==
    LET value == peek(self.wavetable)
    IN  [value |-> value,
         self |-> [self EXCEPT !.wavetable = push(pop(self.wavetable).rb, value)]]

\* ------------------------------------------------------------- Vibrato
\* Times (delay, width, max_delay) are given in half sample periods, so that
\* time * sample_rate is halves / 2 samples; f32::round rounds half away from
\* zero.
round(halves) == (halves + 1) \div 2

\* Vibrato::new, for width <= max_delay (it panics otherwise) and a delay line
\* of at least one slot (set_read_index panics on a buffer of capacity 0).
Vibrato_new(sample_rate, max_delay, delay, width, frequency, channels) ==
    LET width_samples == round(width)
        delay_samples == round(delay)
        len_delay_line == delay_samples + width_samples * 2
        ring_buffer ==
            set_write_index(set_read_index(RingBuffer_new(len_delay_line), 0),
                            len_delay_line - 1)
    IN  [delay_line |-> [channel \in 1..channels |-> ring_buffer],
         lfo |-> LFO_new(sample_rate, frequency, 1),
         width |-> width_samples,
         sample_rate |-> sample_rate,
         delay |-> delay_samples]

\* One pass of the inner loop of process: the read offset from the LFO, the
\* fractional read, then push of the input sample and pop.
vibrato_sample(self, channel, sample) ==
    LET delay == get_sample(self.lfo).value * self.width + self.delay + 1
        value == get_frac(self.delay_line[channel], delay, 1)
    IN  [self |-> [self EXCEPT
                     !.lfo = get_sample(self.lfo).self,
                     !.delay_line[channel] =
                         pop(push(self.delay_line[channel], sample)).rb],
         value |-> value]

RECURSIVE vibrato_channel(_, _, _, _)
vibrato_channel(self, channel, samples, output) ==
    IF samples = <<>> THEN [self |-> self, output |-> output]
    ELSE LET r == vibrato_sample(self, channel, Head(samples))
         IN  vibrato_channel(r.self, channel, Tail(samples),
                             Append(output, r.value))

\* process: the channels one after the other, all sharing the one LFO.
RECURSIVE vibrato_channels(_, _, _, _)
vibrato_channels(self, input, channel, output) ==
    IF channel > Len(input) THEN [self |-> self, output |-> output]
    ELSE LET r == vibrato_channel(self, channel, input[channel], <<>>)
         IN  vibrato_channels(r.self, input, channel + 1,
                              Append(output, r.output))

Vibrato_process(self, input) == vibrato_channels(self, input, 1, <<>>)

set_params(self, delay, width, frequency) ==
    [self EXCEPT !.delay = round(delay),
                 !.width = round(width),
                 !.lfo = set_frequency(self.lfo, frequency)]

\* --------------------------------------------------------------- state
VARIABLES
    impulse_response,   \* FastConvolver.impulse_response
    buffer,             \* FastConvolver.buffer: [buffer, head, tail]
    mode,               \* FastConvolver.mode
    panicked,           \* a call on the engine panicked; nothing is called after
    ir0,                \* history: the impulse response passed to new
    fresh,              \* history: no call was made since new
    proc,               \* history: the last process call
    flushes,            \* history: the lengths of the flush calls since proc
    drained,            \* history: what those flush calls wrote, concatenated
    calls,              \* history: the calls made since new, in order (Spec)
    rb,                 \* a RingBuffer on its own: [buffer, head, tail]
    rbCap,              \* history: the capacity rb was created with
    rbLast,             \* history: the last call on rb, its result, rb before it
    fifo,               \* history: the values pushed to rb and not yet popped
    tracked,            \* history: fifo is meaningful (only push and pop so far)
    comb,               \* a CombFilter: its fields
    combAlloc,          \* history: the delay-buffer length allocated by new
    combLast,           \* history: the last set_param call, its result, comb before
    ola,                \* history: the last overlap_add call and what it returned
    blk,                \* history: the last block_signals call and what it returned
    lfo,                \* an LFO: its fields
    lfoHist,            \* history: how the wavetable was built, the calls since
    vib,                \* a Vibrato: its fields
    vibHist             \* history: the parameters given to new, the stream so far

engineVars == <<impulse_response, buffer, mode, panicked>>
streamVars == <<ir0, fresh, proc, flushes, drained>>
ringVars == <<rb, rbCap, rbLast, fifo, tracked>>
combVars == <<comb, combAlloc, combLast>>
vars == <<impulse_response, buffer, mode, panicked, ir0, fresh, proc, flushes,
          drained, calls, rb, rbCap, rbLast, fifo, tracked, comb, combAlloc,
          combLast, ola, blk, lfo, lfoHist, vib, vibHist>>
callVars == <<ola, blk>>
effectVars == <<lfo, lfoHist, vib, vibHist>>

\* The components a specification does not exercise stay as they are here.
NoRingCall == [op |-> "none", arg |-> 0, result |-> 0,
               pre |-> RingBuffer_new(0), prefifo |-> <<>>, pretracked |-> FALSE]

RingIdle ==
    /\ rb = RingBuffer_new(0)
    /\ rbCap = 0
    /\ rbLast = NoRingCall
    /\ fifo = <<>>
    /\ tracked = FALSE

NoComb == [filter_type |-> "FIR", sample_rate_hz |-> 0, num_channels |-> 0,
           gain |-> 0, delay_secs |-> 0, delay_samples |-> 0,
           delay_buffers |-> <<>>]

NoCombCall == [op |-> "none", param |-> "none", value |-> 0, ok |-> TRUE,
               output |-> <<>>, pre |-> NoComb]

CombIdle ==
    /\ comb = NoComb
    /\ combAlloc = 0
    /\ combLast = NoCombCall

NoOla == [valid |-> FALSE, fresh |-> FALSE, input |-> <<>>, block_size |-> 0,
          output |-> <<>>]

NoBlocks == [valid |-> FALSE, input |-> <<>>, block_size |-> 0, blocks |-> <<>>]

CallsIdle ==
    /\ ola = NoOla
    /\ blk = NoBlocks

NoLFO == [sample_rate |-> 0, wavetable |-> RingBuffer_new(0), phase |-> 0,
          frequency |-> 0, amplitude |-> 0]

NoLFOHist == [built_by |-> "none", amplitude |-> 0, table |-> <<>>, count |-> 0,
              value |-> 0]

NoVibrato == [delay_line |-> <<>>, lfo |-> NoLFO, width |-> 0, sample_rate |-> 0,
              delay |-> 0]

NoVibratoHist == [reconfigured |-> 0, input |-> <<>>, output |-> <<>>]

EffectsIdle ==
    /\ lfo = NoLFO
    /\ lfoHist = NoLFOHist
    /\ vib = NoVibrato
    /\ vibHist = NoVibratoHist

Self == [impulse_response |-> impulse_response, buffer |-> buffer, mode |-> mode]

NoProc == [valid |-> FALSE, fresh |-> FALSE, input |-> <<>>, output |-> <<>>,
           post |-> RingBuffer_new(0)]

\* The state after FastConvolver::new(&ir0, m).
New(m) ==
    /\ ir0 \in ImpulseResponses
    /\ mode = m
    /\ impulse_response = FastConvolver_new(ir0, mode).impulse_response
    /\ buffer = FastConvolver_new(ir0, mode).buffer
    /\ panicked = FALSE
    /\ fresh = TRUE
    /\ proc = NoProc
    /\ flushes = <<>>
    /\ drained = <<>>
    /\ calls = <<>>
    /\ RingIdle
    /\ CombIdle
    /\ CallsIdle
    /\ EffectsIdle

Init == \E m \in Modes : New(m)

\* A logged call.
Call(op, input, output, ok) ==
    [op |-> op, input |-> input, output |-> output, ok |-> ok]

\* convolver.process(&input, &mut output) with output.len() = input.len();
\* logged: the call is appended to calls.
ProcessCall(input, logged) ==
    LET r == process(Self, input, Len(input))
    IN  /\ ~panicked
        /\ impulse_response' = r.self.impulse_response
        /\ buffer' = r.self.buffer
        /\ panicked' = r.panicked
        /\ fresh' = FALSE
        /\ proc' = [valid |-> TRUE, fresh |-> fresh, input |-> input,
                    output |-> r.output, post |-> r.self.buffer]
        /\ flushes' = <<>>
        /\ drained' = <<>>
        /\ calls' = IF logged
                    THEN Append(calls, Call("process", input, r.output, ~r.panicked))
                    ELSE calls
        /\ UNCHANGED <<mode, ir0>>
        /\ UNCHANGED <<ringVars, combVars, callVars, effectVars>>

\* convolver.flush(&mut output) with output.len() = out_len.  The history keeps
\* the flush calls since the last process call while there are at most
\* MaxFlushes of them and they drained at most capacity samples in all.
FlushCall(out_len, logged) ==
    LET r == flush(Self, out_len)
        kept == /\ proc.valid
                /\ Len(flushes) < MaxFlushes
                /\ Len(drained) + out_len <= capacity(buffer)
    IN  /\ ~panicked
        /\ buffer' = r.self.buffer
        /\ panicked' = r.panicked
        /\ fresh' = FALSE
        /\ proc' = IF kept THEN proc ELSE NoProc
        /\ flushes' = IF kept THEN Append(flushes, out_len) ELSE <<>>
        /\ drained' = IF kept THEN drained \o r.output ELSE <<>>
        /\ calls' = IF logged
                    THEN Append(calls, Call("flush", <<>>, r.output, ~r.panicked))
                    ELSE calls
        /\ UNCHANGED <<impulse_response, mode, ir0>>
        /\ UNCHANGED <<ringVars, combVars, callVars, effectVars>>

\* convolver.reset().
ResetCall(logged) ==
    /\ ~panicked
    /\ buffer' = reset(Self).buffer
    /\ fresh' = FALSE
    /\ proc' = NoProc
    /\ flushes' = <<>>
    /\ drained' = <<>>
    /\ calls' = IF logged THEN Append(calls, Call("reset", <<>>, <<>>, TRUE))
                ELSE calls
    /\ UNCHANGED <<impulse_response, mode, panicked, ir0>>
    /\ UNCHANGED <<ringVars, combVars, callVars, effectVars>>

\* Spec: a run of at most MaxCalls calls on a new engine, every call logged.
Process == \E input \in Inputs : Len(calls) < MaxCalls /\ ProcessCall(input, TRUE)

Flush == \E out_len \in 0..MaxFlushLen : Len(calls) < MaxCalls /\ FlushCall(out_len, TRUE)

Reset == Len(calls) < MaxCalls /\ ResetCall(TRUE)

Next == Process \/ Flush \/ Reset

Spec == Init /\ [][Next]_vars

\* SpecStream: a TimeDomain engine and a stream of calls of any length; only
\* the last process call and the flush calls after it are remembered.
StreamProcess == \E input \in Inputs : ProcessCall(input, FALSE)

StreamFlush == \E out_len \in 0..MaxFlushLen : FlushCall(out_len, FALSE)

StreamReset == ResetCall(FALSE)

StreamNext == StreamProcess \/ StreamFlush \/ StreamReset

SpecStream == New(TimeDomain) /\ [][StreamNext]_vars

\* SpecFreq: a FrequencyDomain engine of any block size and a stream of calls
\* of any length; only the last process call is remembered, and only until
\* the next flush or reset.
FreqNew == \E block_size \in 1..MaxBlockSize : New(FrequencyDomain(block_size))

FreqFlush ==
    \E out_len \in 0..MaxFlushLen :
        /\ ~panicked
        /\ buffer' = flush(Self, out_len).self.buffer
        /\ panicked' = flush(Self, out_len).panicked
        /\ fresh' = FALSE
        /\ proc' = NoProc
        /\ UNCHANGED <<impulse_response, mode, ir0, flushes, drained, calls>>
        /\ UNCHANGED <<ringVars, combVars, callVars, effectVars>>

FreqNext == StreamProcess \/ FreqFlush \/ StreamReset

SpecFreq == FreqNew /\ [][FreqNext]_vars

\* SpecMismatch: a TimeDomain engine and a stream of calls in which process may
\* also be given an output buffer whose length differs from the input's.
MaxOutLen == 3

ProcessMismatched ==
    \E input \in Inputs, out_len \in 0..MaxOutLen :
        LET r == process(Self, input, out_len)
        IN  /\ out_len # Len(input)
            /\ ~panicked
            /\ impulse_response' = r.self.impulse_response
            /\ buffer' = r.self.buffer
            /\ panicked' = r.panicked
            /\ fresh' = FALSE
            /\ proc' = [valid |-> TRUE, fresh |-> fresh, input |-> input,
                        output |-> r.output, post |-> r.self.buffer]
            /\ flushes' = <<>>
            /\ drained' = <<>>
            /\ UNCHANGED <<mode, ir0, calls>>
            /\ UNCHANGED <<ringVars, combVars, callVars, effectVars>>

MismatchNext == StreamProcess \/ StreamFlush \/ StreamReset \/ ProcessMismatched

SpecMismatch == New(TimeDomain) /\ [][MismatchNext]_vars

\* SpecRing: a RingBuffer of capacity 1 .. MaxCapacity on its own, and any
\* sequence of calls on it.  The engine and the comb filter are not used.
EngineIdle ==
    /\ ir0 = <<>>
    /\ mode = TimeDomain
    /\ impulse_response = <<>>
    /\ buffer = RingBuffer_new(0)
    /\ panicked = FALSE
    /\ fresh = TRUE
    /\ proc = NoProc
    /\ flushes = <<>>
    /\ drained = <<>>
    /\ calls = <<>>

\* The state after RingBuffer::new(cap).
RingNew ==
    /\ rbCap \in 1..MaxCapacity
    /\ rb = RingBuffer_new(rbCap)
    /\ rbLast = NoRingCall
    /\ fifo = <<>>
    /\ tracked = TRUE
    /\ EngineIdle
    /\ CombIdle
    /\ CallsIdle
    /\ EffectsIdle

RingCall(op, arg, result) ==
    [op |-> op, arg |-> arg, result |-> result,
     pre |-> rb, prefifo |-> fifo, pretracked |-> tracked]

\* A call that is neither push nor pop but changes the buffer ends the
\* bookkeeping of unread values.
Untracked ==
    /\ fifo' = <<>>
    /\ tracked' = FALSE

\* rb.push(value).  fifo follows while at most capacity - 1 values are unread
\* before the push.
RingPush ==
    \E value \in SampleValues :
        /\ rb' = push(rb, value)
        /\ rbLast' = RingCall("push", value, 0)
        /\ tracked' = (tracked /\ Len(fifo) <= capacity(rb) - 1)
        /\ fifo' = IF tracked' THEN Append(fifo, value) ELSE <<>>
        /\ UNCHANGED <<rbCap, engineVars, streamVars, calls, combVars,
                       callVars, effectVars>>

\* rb.pop().  fifo follows while at least one value is unread before the pop.
RingPop ==
    /\ rb' = pop(rb).rb
    /\ rbLast' = RingCall("pop", 0, pop(rb).value)
    /\ tracked' = (tracked /\ Len(fifo) >= 1)
    /\ fifo' = IF tracked' THEN Tail(fifo) ELSE <<>>
    /\ UNCHANGED <<rbCap, engineVars, streamVars, calls, combVars, callVars,
                   effectVars>>

RingPut ==
    \E value \in SampleValues :
        /\ rb' = put(rb, value)
        /\ rbLast' = RingCall("put", value, 0)
        /\ Untracked
        /\ UNCHANGED <<rbCap, engineVars, streamVars, calls, combVars,
                       callVars, effectVars>>

\* The methods that take &self: the buffer is as before.
RingPeek ==
    /\ rbLast' = RingCall("peek", 0, peek(rb))
    /\ UNCHANGED <<rb, rbCap, fifo, tracked, engineVars, streamVars, calls,
                   combVars, callVars, effectVars>>

RingGet ==
    \E offset \in 0..MaxIndex :
        /\ rbLast' = RingCall("get", offset, get(rb, offset))
        /\ UNCHANGED <<rb, rbCap, fifo, tracked, engineVars, streamVars, calls,
                       combVars, callVars, effectVars>>

RingGetFrac ==
    \E num \in 0..(MaxIndex * FracDen) :
        /\ rbLast' = RingCall("get_frac", num, get_frac(rb, num, FracDen))
        /\ UNCHANGED <<rb, rbCap, fifo, tracked, engineVars, streamVars, calls,
                       combVars, callVars, effectVars>>

RingLen ==
    /\ rbLast' = RingCall("len", 0, len(rb))
    /\ UNCHANGED <<rb, rbCap, fifo, tracked, engineVars, streamVars, calls,
                   combVars, callVars, effectVars>>

RingSetReadIndex ==
    \E index \in 0..MaxIndex :
        /\ rb' = set_read_index(rb, index)
        /\ rbLast' = RingCall("set_read_index", index, 0)
        /\ Untracked
        /\ UNCHANGED <<rbCap, engineVars, streamVars, calls, combVars,
                       callVars, effectVars>>

RingSetWriteIndex ==
    \E index \in 0..MaxIndex :
        /\ rb' = set_write_index(rb, index)
        /\ rbLast' = RingCall("set_write_index", index, 0)
        /\ Untracked
        /\ UNCHANGED <<rbCap, engineVars, streamVars, calls, combVars,
                       callVars, effectVars>>

RingReset ==
    /\ rb' = RingBuffer_reset(rb)
    /\ rbLast' = RingCall("reset", 0, 0)
    /\ Untracked
    /\ UNCHANGED <<rbCap, engineVars, streamVars, calls, combVars, callVars,
                   effectVars>>

RingNext ==
    \/ RingPush \/ RingPop \/ RingPut \/ RingPeek \/ RingGet \/ RingGetFrac
    \/ RingLen \/ RingSetReadIndex \/ RingSetWriteIndex \/ RingReset

SpecRing == RingNew /\ [][RingNext]_vars

\* SpecComb: a one-channel CombFilter whose delay buffer has at least one
\* slot, and any sequence of set_param, process and reset calls on it.
CombNew ==
    /\ \E filter_type \in {"FIR", "IIR"}, max_delay_ticks \in 1..MaxDelayTicks,
          sample_rate_hz \in SampleRates :
           comb = CombFilter_new(filter_type, max_delay_ticks, sample_rate_hz, 1)
    /\ combAlloc = Len(comb.delay_buffers[1])
    /\ combAlloc >= 1
    /\ combLast = NoCombCall
    /\ EngineIdle
    /\ RingIdle
    /\ CallsIdle
    /\ EffectsIdle

CombSetGain ==
    \E value \in SampleValues :
        /\ comb' = set_param(comb, "Gain", value).self
        /\ combLast' = [op |-> "set_param", param |-> "Gain", value |-> value,
                        ok |-> set_param(comb, "Gain", value).ok,
                        output |-> <<>>, pre |-> comb]
        /\ UNCHANGED <<combAlloc, engineVars, streamVars, calls, ringVars,
                       callVars, effectVars>>

CombSetDelay ==
    \E value \in (-1)..(MaxDelayTicks + 1) :
        /\ comb' = set_param(comb, "Delay", value).self
        /\ combLast' = [op |-> "set_param", param |-> "Delay", value |-> value,
                        ok |-> set_param(comb, "Delay", value).ok,
                        output |-> <<>>, pre |-> comb]
        /\ UNCHANGED <<combAlloc, engineVars, streamVars, calls, ringVars,
                       callVars, effectVars>>

\* process on one channel of one or two samples, while the samples held in
\* the delay buffer stay within MaxCombSample.
CombProcess ==
    \E samples \in Inputs :
        LET r == CombFilter_process(comb, <<samples>>)
        IN  /\ \A i \in 1..Len(r.self.delay_buffers[1]) :
                   r.self.delay_buffers[1][i] <= MaxCombSample
            /\ comb' = r.self
            /\ combLast' = [op |-> "process", param |-> "none", value |-> 0,
                            ok |-> TRUE, output |-> r.output, pre |-> comb]
            /\ UNCHANGED <<combAlloc, engineVars, streamVars, calls,
                           ringVars, callVars, effectVars>>

CombReset ==
    /\ comb' = CombFilter_reset(comb)
    /\ combLast' = [op |-> "reset", param |-> "none", value |-> 0, ok |-> TRUE,
                    output |-> <<>>, pre |-> comb]
    /\ UNCHANGED <<combAlloc, engineVars, streamVars, calls, ringVars,
                   callVars, effectVars>>

CombNext == CombSetGain \/ CombSetDelay \/ CombProcess \/ CombReset

SpecComb == CombNew /\ [][CombNext]_vars

\* SpecOverlapAdd: a TimeDomain engine with an impulse response of up to
\* MaxOlaIRLen coefficients, and at most MaxOlaCalls overlap_add calls whose
\* output buffer is as long as the input; the calls are logged.
OlaImpulseResponses == {h \in SeqsUpTo(SampleValues, MaxOlaIRLen) : Len(h) >= 1}
OlaInputs == {x \in SeqsUpTo(SampleValues, MaxOlaInLen) : Len(x) >= 1}

OverlapAddNew ==
    /\ ir0 \in OlaImpulseResponses
    /\ mode = TimeDomain
    /\ impulse_response = FastConvolver_new(ir0, mode).impulse_response
    /\ buffer = FastConvolver_new(ir0, mode).buffer
    /\ panicked = FALSE
    /\ fresh = TRUE
    /\ proc = NoProc
    /\ flushes = <<>>
    /\ drained = <<>>
    /\ calls = <<>>
    /\ RingIdle
    /\ CombIdle
    /\ CallsIdle
    /\ EffectsIdle

OverlapAdd ==
    \E input \in OlaInputs, block_size \in 1..MaxBlockSize :
        LET r == overlap_add(Self, input, Len(input), block_size)
        IN  /\ ~panicked
            /\ Len(calls) < MaxOlaCalls
            /\ impulse_response' = r.self.impulse_response
            /\ buffer' = r.self.buffer
            /\ panicked' = r.panicked
            /\ fresh' = FALSE
            /\ calls' = Append(calls, Call("overlap_add", input, r.output,
                                           ~r.panicked))
            /\ ola' = [valid |-> TRUE, fresh |-> fresh, input |-> input,
                       block_size |-> block_size, output |-> r.output]
            /\ UNCHANGED <<mode, ir0, proc, flushes, drained, blk>>
            /\ UNCHANGED <<ringVars, combVars, effectVars>>

SpecOverlapAdd == OverlapAddNew /\ [][OverlapAdd]_vars

\* SpecBlocks: a FrequencyDomain engine on which block_signals is called with
\* sequences of at most MaxPartLen samples and the block sizes 1..MaxBlockSize
\* (block_signals reads neither the mode nor any other field of the engine);
\* blk keeps the last call.
PartInputs == SeqsUpTo(SampleValues, MaxPartLen)

BlockSignals ==
    \E input \in PartInputs, block_size \in 1..MaxBlockSize :
        /\ ~panicked
        /\ blk' = [valid |-> TRUE, input |-> input, block_size |-> block_size,
                   blocks |-> block_signals(input, block_size)]
        /\ UNCHANGED <<engineVars, streamVars, calls, ola>>
        /\ UNCHANGED <<ringVars, combVars, effectVars>>

BlocksNew == New(FrequencyDomain(MaxBlockSize))

SpecBlocks == BlocksNew /\ [][BlockSignals]_vars

\* SpecLfo: an LFO and any sequence of set_frequency, set_amplitude and
\* get_sample calls on it, at most MaxGetSamples get_sample calls in a row.
\* lfoHist keeps who built the wavetable last, the amplitude the caller gave
\* last, the table as built, and the calls of get_sample since.
LfoNew ==
    /\ \E sample_rate \in LfoSampleRates, frequency \in LfoFrequencies,
          amplitude \in Amplitudes :
           /\ lfo = LFO_new(sample_rate, frequency, amplitude)
           /\ lfoHist = [built_by |-> "new", amplitude |-> amplitude,
                         table |-> lfo.wavetable.buffer, count |-> 0, value |-> 0]
    /\ vib = NoVibrato
    /\ vibHist = NoVibratoHist
    /\ EngineIdle
    /\ RingIdle
    /\ CombIdle
    /\ CallsIdle

LfoSetFrequency ==
    \E frequency \in LfoFrequencies :
        /\ lfo' = set_frequency(lfo, frequency)
        /\ lfoHist' = [built_by |-> "set_frequency",
                       amplitude |-> lfoHist.amplitude,
                       table |-> lfo'.wavetable.buffer, count |-> 0, value |-> 0]
        /\ UNCHANGED <<vib, vibHist, engineVars, streamVars, calls, ringVars,
                       combVars, callVars>>

LfoSetAmplitude ==
    \E amplitude \in Amplitudes :
        /\ lfo' = set_amplitude(lfo, amplitude)
        /\ lfoHist' = [built_by |-> "set_amplitude", amplitude |-> amplitude,
                       table |-> lfo'.wavetable.buffer, count |-> 0, value |-> 0]
        /\ UNCHANGED <<vib, vibHist, engineVars, streamVars, calls, ringVars,
                       combVars, callVars>>

LfoGetSample ==
    /\ lfoHist.count < MaxGetSamples
    /\ lfo' = get_sample(lfo).self
    /\ lfoHist' = [lfoHist EXCEPT !.count = lfoHist.count + 1,
                                  !.value = get_sample(lfo).value]
    /\ UNCHANGED <<vib, vibHist, engineVars, streamVars, calls, ringVars,
                   combVars, callVars>>

LfoNext == LfoSetFrequency \/ LfoSetAmplitude \/ LfoGetSample

SpecLfo == LfoNew /\ [][LfoNext]_vars

\* SpecVibrato: a Vibrato of 1..MaxChannels channels and any sequence of
\* process and set_params calls on it, every channel given blocks of the same
\* length, at most MaxVibStream samples per channel and MaxSetParams calls of
\* set_params in all.  vibHist keeps, per channel, all the input given and all
\* the output written so far, and the number of set_params calls.
VibBlocks(channels) ==
    UNION {[1..channels -> [1..n -> SampleValues]] : n \in 1..MaxVibBlock}

VibratoNew ==
    /\ \E sample_rate \in LfoSampleRates, frequency \in LfoFrequencies,
          delay \in 0..MaxDelayHalves, width \in 0..MaxWidthHalves,
          max_delay \in 0..MaxWidthHalves, channels \in 1..MaxChannels :
           /\ width <= max_delay
           /\ round(delay) + round(width) * 2 >= 1
           /\ vib = Vibrato_new(sample_rate, max_delay, delay, width, frequency,
                                channels)
           /\ vibHist = [reconfigured |-> 0,
                         input |-> [channel \in 1..channels |-> <<>>],
                         output |-> [channel \in 1..channels |-> <<>>]]
    /\ lfo = NoLFO
    /\ lfoHist = NoLFOHist
    /\ EngineIdle
    /\ RingIdle
    /\ CombIdle
    /\ CallsIdle

VibratoProcess ==
    \E input \in VibBlocks(Len(vib.delay_line)) :
        /\ Len(vibHist.input[1]) + Len(input[1]) <= MaxVibStream
        /\ vib' = Vibrato_process(vib, input).self
        /\ vibHist' =
             [vibHist EXCEPT
                !.input = [channel \in 1..Len(input) |->
                               vibHist.input[channel] \o input[channel]],
                !.output = [channel \in 1..Len(input) |->
                               vibHist.output[channel]
                               \o Vibrato_process(vib, input).output[channel]]]
        /\ UNCHANGED <<lfo, lfoHist, engineVars, streamVars, calls, ringVars,
                       combVars, callVars>>

VibratoSetParams ==
    \E delay \in 0..MaxDelayHalves, width \in 0..MaxWidthHalves,
       frequency \in LfoFrequencies :
        /\ vibHist.reconfigured < MaxSetParams
        /\ vib' = set_params(vib, delay, width, frequency)
        /\ vibHist' = [vibHist EXCEPT !.reconfigured = vibHist.reconfigured + 1]
        /\ UNCHANGED <<lfo, lfoHist, engineVars, streamVars, calls, ringVars,
                       combVars, callVars>>

VibratoNext == VibratoProcess \/ VibratoSetParams

SpecVibrato == VibratoNew /\ [][VibratoNext]_vars

\* ---------------------------------------------------------- references
\* Sample k (0-based) of the linear convolution of x with h,
\* sum of x[a] * h[k - a] over the a < upto for which both indices exist.
RECURSIVE LinConvSum(_, _, _, _)
LinConvSum(x, h, k, upto) ==
    IF upto = 0 THEN 0
    ELSE LinConvSum(x, h, k, upto - 1)
         + (IF k - (upto - 1) >= 0 /\ k - (upto - 1) < Len(h)
            THEN x[upto] * h[k - (upto - 1) + 1] ELSE 0)

LinConvAt(x, h, k) == LinConvSum(x, h, k, Len(x))

\* Samples lo .. lo + count - 1 (0-based) of the linear convolution of x with h.
LinConvSlice(x, h, lo, count) == [i \in 1..count |-> LinConvAt(x, h, lo + i - 1)]

\* Overlap-add of the blocks xb of an input with the blocks hb of an impulse
\* response: sample p (0-based) of the sum, over the first k pairs (i, j), of
\* the linear convolution of xb[i] with hb[j] placed at i * B + j * B.
RECURSIVE OverlapAddSum(_, _, _, _, _)
OverlapAddSum(xb, hb, B, p, k) ==
    IF k = 0 THEN 0
    ELSE LET i == (k - 1) \div Len(hb)
             j == (k - 1) % Len(hb)
         IN  OverlapAddSum(xb, hb, B, p, k - 1)
             + LinConvAt(xb[i + 1], hb[j + 1], p - i * B - j * B)

\* The first count samples of the overlap-add of x and h in blocks of B.
OverlapAddReference(x, h, B, count) ==
    [p \in 1..count |->
        OverlapAddSum(block_signals(x, B), block_signals(h, B), B, p - 1,
                      Len(block_signals(x, B)) * Len(block_signals(h, B)))]

\* The blocks of a sequence of blocks, concatenated.
RECURSIVE Concat(_)
Concat(blocks) == IF blocks = <<>> THEN <<>> ELSE Head(blocks) \o Concat(Tail(blocks))

\* ceil(n / B).
CeilDiv(n, B) == (n + B - 1) \div B

\* The inputs, and the outputs, of the first k logged calls, concatenated.
RECURSIVE InputsUpTo(_)
InputsUpTo(k) == IF k = 0 THEN <<>> ELSE InputsUpTo(k - 1) \o calls[k].input

RECURSIVE OutputsUpTo(_)
OutputsUpTo(k) == IF k = 0 THEN <<>> ELSE OutputsUpTo(k - 1) \o calls[k].output

AllProcess(k) == \A q \in 1..k : calls[q].op = "process"

\* h[k] of the impulse response passed to new, 0 outside it.
H(k) == IF k >= 0 /\ k < Len(ir0) THEN ir0[k + 1] ELSE 0

RECURSIVE SumSeq(_)
SumSeq(s) == IF s = <<>> THEN 0 ELSE Head(s) + SumSeq(Tail(s))

\* x is zero except for a unit impulse at (0-based) position p.
UnitImpulseAt(x, p) ==
    /\ p < Len(x)
    /\ \A i \in 1..Len(x) : x[i] = (IF i = p + 1 THEN 1 ELSE 0)

\* A new TimeDomain engine with the impulse response passed to new.
FreshTimeDomain == FastConvolver_new(ir0, TimeDomain)

\* ------------------------------------------------------------- claims

\* C1: block-size invariance in TimeDomain mode.  Whatever the split of the
\* input into process calls on a new engine, the outputs, concatenated, are the
\* first N samples of the linear convolution of the whole input with h.
C1_BlockSizeInvariance ==
    (mode = TimeDomain /\ calls # <<>> /\ AllProcess(Len(calls))) =>
        /\ \A q \in 1..Len(calls) : calls[q].ok
        /\ OutputsUpTo(Len(calls))
             = LinConvSlice(InputsUpTo(Len(calls)), ir0, 0, Len(InputsUpTo(Len(calls))))

\* C2: tail completeness in TimeDomain mode.  After one or more process calls
\* on a new engine, a flush into a buffer of length L - 1 returns samples
\* N .. N + L - 2 of the linear convolution of the whole input with h.
C2_TailCompleteness ==
    (/\ mode = TimeDomain
     /\ Len(calls) >= 2
     /\ AllProcess(Len(calls) - 1)
     /\ calls[Len(calls)].op = "flush"
     /\ Len(calls[Len(calls)].output) = Len(ir0) - 1) =>
        /\ calls[Len(calls)].ok
        /\ calls[Len(calls)].output
             = LinConvSlice(InputsUpTo(Len(calls) - 1), ir0,
                            Len(InputsUpTo(Len(calls) - 1)), Len(ir0) - 1)

\* C3: convolution identity.  On a new TimeDomain engine, one process call
\* whose input of length n is a unit impulse at position p writes
\* output[i] = h[i - p] for i >= p and 0 before, and a flush of length L - 1
\* right after it returns h[n - p], h[n - p + 1], ... and then zeros.
C3_ConvolutionIdentity ==
    \A p \in 0..(Len(proc.input) - 1) :
        (mode = TimeDomain /\ proc.valid /\ proc.fresh /\ UnitImpulseAt(proc.input, p)) =>
            /\ (flushes = <<>> \/ flushes = <<Len(ir0) - 1>>) => ~panicked
            /\ Len(proc.output) = Len(proc.input)
            /\ \A i \in 0..(Len(proc.input) - 1) :
                   proc.output[i + 1] = (IF i >= p THEN H(i - p) ELSE 0)
            /\ flushes = <<Len(ir0) - 1>> =>
                   /\ Len(drained) = Len(ir0) - 1
                   /\ \A k \in 0..(Len(ir0) - 2) :
                          drained[k + 1] = H(Len(proc.input) - p + k)

\* C3's case: an impulse at position 1 of an input of length 2, an impulse
\* response of length 3, and the flush has returned a tail that is not zero.
C3_Witness ==
    /\ mode = TimeDomain /\ proc.valid /\ proc.fresh /\ ~panicked
    /\ proc.input = <<0, 1>>
    /\ Len(ir0) = 3
    /\ flushes = <<2>>
    /\ drained = <<1, 1>>

\* C4: mode equivalence.  One process call on a new FrequencyDomain{B} engine,
\* with an input whose length is a multiple of B, writes what the same call
\* writes on a new TimeDomain engine with the same impulse response.
C4_ModeEquivalence ==
    (/\ mode.kind = "FrequencyDomain"
     /\ Len(calls) = 1
     /\ calls[1].op = "process"
     /\ Len(calls[1].input) % mode.block_size = 0) =>
        /\ calls[1].ok
        /\ calls[1].output
             = process(FreshTimeDomain, calls[1].input, Len(calls[1].input)).output

\* C5: in FrequencyDomain{B} mode process completes normally for every input
\* length n >= 1, a multiple of B or not.
C5_RaggedBlockAccepted ==
    mode.kind = "FrequencyDomain" =>
        \A q \in 1..Len(calls) : calls[q].op = "process" => calls[q].ok

\* C6: the installed impulse response is immutable.  After any sequence of
\* process, flush and reset calls the engine holds the coefficients passed to
\* new, and the tail buffer's capacity is their number minus one.
C6_ImpulseResponseImmutable ==
    ~panicked =>
        /\ impulse_response = ir0
        /\ capacity(buffer) = Len(impulse_response) - 1

\* C7: flush is the same in both modes.  After one process call on a new
\* engine (input length a multiple of B), a flush of length L - 1 returns in
\* FrequencyDomain{B} mode what it returns in TimeDomain mode.
C7_FlushModeIndependent ==
    (/\ mode.kind = "FrequencyDomain"
     /\ Len(calls) = 2
     /\ calls[1].op = "process"
     /\ Len(calls[1].input) % mode.block_size = 0
     /\ calls[2].op = "flush"
     /\ Len(calls[2].output) = Len(ir0) - 1) =>
        /\ calls[2].ok
        /\ calls[2].output
             = flush(process(FreshTimeDomain, calls[1].input, Len(calls[1].input)).self,
                     Len(ir0) - 1).output

\* The last process call before call k with only flush calls in between
\* (0 when there is none), and the samples those flush calls were asked for.
LastProcessBefore(k) ==
    LET ps == {q \in 1..(k - 1) :
                  /\ calls[q].op = "process"
                  /\ \A r \in (q + 1)..(k - 1) : calls[r].op = "flush"}
    IN  IF ps = {} THEN 0 ELSE CHOOSE q \in ps : TRUE

RECURSIVE FlushedBetween(_, _)
FlushedBetween(q, k) ==
    IF q + 1 >= k THEN 0
    ELSE FlushedBetween(q, k - 1) + Len(calls[k - 1].output)

\* C8: flush drains the tail and pads with zero.  Once the L - 1 tail samples
\* left by the last process call are written out, every further sample a flush
\* writes is 0: in a flush buffer longer than what is left, and in a later
\* flush with no process call in between.
C8_FlushPadsWithZero ==
    \A k \in 1..Len(calls) :
        (calls[k].op = "flush" /\ calls[k].ok /\ LastProcessBefore(k) # 0) =>
            \A i \in 1..Len(calls[k].output) :
                FlushedBetween(LastProcessBefore(k), k) + i > Len(ir0) - 1
                    => calls[k].output[i] = 0

\* C9: partial flush in TimeDomain mode.  After a process call, flush calls
\* asking for m1, m2, .. samples, at most L - 1 in all, pop exactly that many:
\* concatenated they are the tail buffer's slots read in order from the read
\* cursor the process call left, the read cursor ends m1 + m2 + .. slots
\* further, and the slots and the write cursor are as the process call left
\* them.  What two flush calls return is thus what one flush call of
\* length m1 + m2 returns.
C9_PartialFlush ==
    (mode = TimeDomain /\ proc.valid /\ flushes # <<>>) =>
        /\ ~panicked
        /\ Len(drained) <= Len(ir0) - 1
        /\ Len(drained) = SumSeq(flushes)
        /\ \A k \in 1..Len(drained) :
               drained[k] = proc.post.buffer[((proc.post.tail + k - 1) % capacity(buffer)) + 1]
        /\ capacity(buffer) > 0 =>
               buffer.tail = (proc.post.tail + Len(drained)) % capacity(buffer)
        /\ buffer.buffer = proc.post.buffer
        /\ buffer.head = proc.post.head

\* C9's case: two flush calls of one sample each after a process call that
\* left two different tail samples.
C9_Witness ==
    /\ mode = TimeDomain /\ proc.valid /\ ~panicked
    /\ flushes = <<1, 1>>
    /\ drained = <<1, 0>>
    /\ buffer.tail = 0

\* C10: process after flush starts a fresh convolution.  In TimeDomain mode,
\* after process(x1) and a flush of m <= L - 1 samples, process(x2) and a flush
\* of L - 1 samples return what they return on a new engine.
C10_ProcessAfterFlushIsFresh ==
    (/\ mode = TimeDomain
     /\ Len(calls) = 4
     /\ calls[1].op = "process"
     /\ calls[2].op = "flush" /\ Len(calls[2].output) <= Len(ir0) - 1
     /\ calls[3].op = "process"
     /\ calls[4].op = "flush" /\ Len(calls[4].output) = Len(ir0) - 1) =>
        /\ \A q \in 1..4 : calls[q].ok
        /\ calls[3].output
             = process(FreshTimeDomain, calls[3].input, Len(calls[3].input)).output
        /\ calls[4].output
             = flush(process(FreshTimeDomain, calls[3].input, Len(calls[3].input)).self,
                     Len(ir0) - 1).output

\* The logged calls i .. Len(calls), made on the engine self, return what the
\* log says they returned (and panic where the log says they panicked).
RECURSIVE SameFrom(_, _)
SameFrom(self, i) ==
    IF i > Len(calls) THEN TRUE
    ELSE LET c == calls[i]
             r == IF c.op = "process" THEN process(self, c.input, Len(c.input))
                  ELSE IF c.op = "flush" THEN flush(self, Len(c.output))
                  ELSE [self |-> reset(self), output |-> <<>>, panicked |-> FALSE]
         IN  /\ r.panicked = ~c.ok
             /\ r.output = c.output
             /\ (r.panicked \/ SameFrom(r.self, i + 1))

\* C11: reset returns the engine to its initial state.  In either mode, the
\* calls made after a reset return what the same calls return on an engine
\* newly constructed with the same impulse response and mode.
C11_ResetIsNew ==
    \A k \in 1..Len(calls) :
        calls[k].op = "reset" => SameFrom(FastConvolver_new(ir0, mode), k + 1)

\* C12: mismatched block lengths are fatal.  A TimeDomain process call whose
\* output buffer is not as long as its input panics, and leaves the tail
\* buffer (contents and both cursors) as it was.
C12_MismatchIsFatal ==
    [][(/\ ~panicked
        /\ proc'.valid /\ flushes' = <<>>
        /\ Len(proc'.output) # Len(proc'.input)) =>
            (panicked' /\ buffer' = buffer)]_vars

\* C13: ring invariant.  For a buffer of capacity C >= 1, after any sequence
\* of push, pop, put, peek, get, set_read_index(i), set_write_index(i) and
\* reset calls both cursors are within 0 .. C - 1, a setter has stored
\* i mod C, len() is at most C and capacity() is still C.
C13_RingInvariant ==
    /\ get_read_index(rb) \in 0..(rbCap - 1)
    /\ get_write_index(rb) \in 0..(rbCap - 1)
    /\ len(rb) <= rbCap
    /\ capacity(rb) = rbCap
    /\ rbLast.op = "set_read_index" => get_read_index(rb) = rbLast.arg % rbCap
    /\ rbLast.op = "set_write_index" => get_write_index(rb) = rbLast.arg % rbCap

\* C13's case: set_read_index with an index past the end, on a buffer of
\* three slots whose write cursor has moved.
C13_Witness ==
    /\ rbCap = 3
    /\ rbLast.op = "set_read_index" /\ rbLast.arg = 4
    /\ get_read_index(rb) = 1
    /\ get_write_index(rb) = 2

\* C14 as stated: len() reports the number of valid entries.  For any sequence
\* of push and pop calls in which the number k of values pushed and not yet
\* popped stays within 0 .. C, len() returns k; after C pushes and no pop
\* len() is C.
C14_LenCountsUnread ==
    tracked => len(rb) = Len(fifo)

\* C14, amended: under the same sequences len() returns k while k is at most
\* C - 1, and 0 when k = C: the write cursor has come back onto the read
\* cursor and a full buffer reports the length of an empty one.
C14_LenCountsUnreadBelowCapacity ==
    tracked =>
        /\ Len(fifo) \in 0..rbCap
        /\ len(rb) = IF Len(fifo) = rbCap THEN 0 ELSE Len(fifo)

\* C14's case: three values unread in a buffer of three slots, after the
\* cursors have moved off slot 0.
C14_Witness ==
    /\ tracked
    /\ rbCap = 3
    /\ Len(fifo) = 3
    /\ get_write_index(rb) = 1 /\ get_read_index(rb) = 1
    /\ len(rb) = 0

\* The value a pop returned is the oldest value pushed and not yet popped.
PopReturnsOldest ==
    (rbLast.op = "pop" /\ rbLast.pretracked /\ Len(rbLast.prefifo) >= 1) =>
        /\ rbLast.result = Head(rbLast.prefifo)
        /\ tracked /\ fifo = Tail(rbLast.prefifo)

\* C15 as stated: FIFO that wraps.  For any interleaving of push and pop in
\* which at most C - 1 values are unread before each push and at least one
\* before each pop, every pop returns the oldest value pushed and not yet
\* popped, and len() equals the number of pushes minus the number of pops.
C15_FifoThatWraps ==
    /\ PopReturnsOldest
    /\ tracked => len(rb) = Len(fifo)

\* C15, amended: every such pop returns the oldest unread value, and len()
\* equals the number of pushes minus the number of pops modulo C.
C15_FifoThatWrapsLenModC ==
    /\ PopReturnsOldest
    /\ tracked => len(rb) = Len(fifo) % rbCap

\* C15's case: a pop from a full two-slot buffer whose oldest value sits in
\* slot 1, the newest having wrapped into slot 0.
C15_Witness ==
    /\ rbCap = 2
    /\ rbLast.op = "pop" /\ rbLast.pretracked
    /\ rbLast.prefifo = <<1, 0>>
    /\ get_read_index(rbLast.pre) = 1
    /\ rbLast.result = 1
    /\ tracked /\ fifo = <<0>>
    /\ len(rb) = 1

\* Neither cursor of rb differs from what it was before the last call.
CursorsAsBefore ==
    /\ get_read_index(rb) = get_read_index(rbLast.pre)
    /\ get_write_index(rb) = get_write_index(rbLast.pre)

\* C16 as stated: put and peek both operate at the write cursor without
\* advancing.  In every buffer state, put(v) immediately followed by peek()
\* returns v, and neither call changes either cursor.
C16_PutThenPeek ==
    /\ rbLast.op = "put" => (peek(rb) = rbLast.arg /\ CursorsAsBefore)
    /\ rbLast.op = "peek" => CursorsAsBefore

\* C16, amended: put writes the slot at the write cursor, peek reads the slot
\* at the read cursor, and neither changes a cursor.  put(v) immediately
\* followed by peek() returns v when the two cursors are equal, and otherwise
\* what peek() returned before the put.
C16_PutAtHeadPeekAtTail ==
    /\ rbLast.op = "put" =>
        /\ rb.buffer = [rbLast.pre.buffer EXCEPT ![get_write_index(rb) + 1] = rbLast.arg]
        /\ CursorsAsBefore
        /\ peek(rb) = IF get_write_index(rb) = get_read_index(rb)
                      THEN rbLast.arg ELSE peek(rbLast.pre)
    /\ rbLast.op = "peek" =>
        /\ rbLast.result = rb.buffer[get_read_index(rb) + 1]
        /\ rb = rbLast.pre

\* C16's case: put(1) with the write cursor away from the read cursor, whose
\* slot holds 0.
C16_Witness ==
    /\ rbLast.op = "put" /\ rbLast.arg = 1
    /\ get_write_index(rb) # get_read_index(rb)
    /\ rb.buffer[get_write_index(rb) + 1] = 1
    /\ peek(rb) = 0

\* C17: RingBuffer::reset restores the initial state.  From any reachable
\* state, after reset both cursors are 0, get(i) is zero for every i in
\* 0 .. capacity - 1, and capacity() is what it was.
C17_ResetRestoresInitialState ==
    rbLast.op = "reset" =>
        /\ get_read_index(rb) = 0
        /\ get_write_index(rb) = 0
        /\ \A i \in 0..(capacity(rb) - 1) : get(rb, i) = 0
        /\ capacity(rb) = capacity(rbLast.pre)
        /\ rb = RingBuffer_new(rbCap)

\* C17's case: reset of a three-slot buffer that held a nonzero value and had
\* both cursors off slot 0.
C17_Witness ==
    /\ rbLast.op = "reset"
    /\ rbCap = 3
    /\ get_read_index(rbLast.pre) = 2
    /\ get_write_index(rbLast.pre) = 1
    /\ \E i \in 0..2 : get(rbLast.pre, i) = 1
    /\ rb = RingBuffer_new(3)

\* C18: fractional read identity.  For every integer k >= 0, also k >=
\* capacity, get_frac(k) equals get(k), the value at (tail + k) mod capacity,
\* and get_frac changes neither the cursors nor the contents.  (The result
\* recorded for get_frac is the value times FracDen.)
C18_FracReadIdentity ==
    /\ \A k \in 0..MaxIndex :
           get_frac(rb, k * FracDen, FracDen) = FracDen * get(rb, k)
    /\ (rbLast.op = "get_frac" /\ rbLast.arg % FracDen = 0) =>
           /\ rbLast.result
                = FracDen * rb.buffer[((get_read_index(rb) + rbLast.arg \div FracDen)
                                         % capacity(rb)) + 1]
           /\ rb = rbLast.pre

\* C18's case: get_frac(4) on a three-slot buffer with the read cursor on
\* slot 2, where the slot read holds 1 and the next one holds 0.
C18_Witness ==
    /\ rbLast.op = "get_frac" /\ rbLast.arg = 4 * FracDen
    /\ rbCap = 3
    /\ get_read_index(rb) = 2
    /\ get(rb, 4) = 1 /\ get(rb, 5) = 0
    /\ rbLast.result = FracDen

\* C19: a rejected parameter leaves the comb filter unchanged.  Whenever
\* set_param(Delay, v) returns Err, every field is as before the call:
\* get_param(Delay) returns the previously accepted delay, and the delay
\* buffers and delay_samples are untouched.
C19_RejectedDelayChangesNothing ==
    (combLast.op = "set_param" /\ combLast.param = "Delay" /\ ~combLast.ok) =>
        /\ comb = combLast.pre
        /\ get_param(comb, "Delay") = get_param(combLast.pre, "Delay")

\* C20: set_param(Delay, v) is rejected exactly when the requested delay
\* exceeds the allocated maximum.  After any sequence of earlier calls it
\* returns Err if and only if floor(sample_rate * v) is greater than the
\* delay-buffer length allocated in new.
C20_RejectedIffAboveAllocation ==
    (combLast.op = "set_param" /\ combLast.param = "Delay") =>
        (~combLast.ok
            <=> as_usize_samples(comb.sample_rate_hz, combLast.value) > combAlloc)

\* C21: overlap_add on a TimeDomain engine returns the full convolution.  For
\* an input x whose length N is a multiple of the block size B and an output
\* buffer of length N, overlap_add on a new engine returns the N + L - 1
\* samples of the linear convolution of x with h.
C21_OverlapAddIsFullConvolution ==
    (ola.valid /\ ola.fresh /\ Len(ola.input) % ola.block_size = 0) =>
        /\ ~panicked
        /\ ola.output = LinConvSlice(ola.input, ir0, 0, Len(ola.input) + Len(ir0) - 1)

\* C22: LFO::set_frequency changes only the frequency.  After new(sample_rate,
\* f, a) and set_frequency(f2) the wavetable has floor(sample_rate / f2)
\* entries and the i-th get_sample call (i = 0, 1, ...) returns
\* a * sin(2 * pi * i / size), a being the amplitude given at construction.
C22_SetFrequencyKeepsAmplitude ==
    lfoHist.built_by = "set_frequency" =>
        /\ capacity(lfo.wavetable) = lfo.sample_rate \div lfo.frequency
        /\ lfoHist.count >= 1 =>
               lfoHist.value
                 = lfoHist.amplitude
                   * sin_of_turn(lfoHist.count - 1, capacity(lfo.wavetable))

\* C28: the LFO cycles through its wavetable forever.  For a wavetable of
\* N >= 1 entries the k-th get_sample call (k = 0, 1, 2, ...) since the table
\* was built returns the entry with index k mod N of the table as built,
\* get_sample never changes the contents of the wavetable, and after every
\* call the read and the write cursor of the wavetable are equal.
C28_LfoCycles ==
    /\ lfo.wavetable.buffer = lfoHist.table
    /\ lfo.wavetable.head = lfo.wavetable.tail
    /\ lfoHist.count >= 1 =>
           lfoHist.value
             = lfoHist.table[((lfoHist.count - 1) % Len(lfoHist.table)) + 1]

\* A table of four entries built by the constructor with amplitude 2 has been
\* read six times: the last read wrapped around and returned entry 1.
C28_Witness ==
    /\ lfoHist.built_by = "new"
    /\ Len(lfoHist.table) = 4
    /\ lfoHist.count = 6
    /\ lfoHist.value = 2

\* C23: a Vibrato with zero modulation is a pure delay.  With modulation width
\* 0 and a delay of D >= 1 samples, for every channel and across any number
\* of process calls, the output is 0 for the first D samples of the stream and
\* output[k] = input[k - D] for every k >= D.
C23_ZeroWidthIsPureDelay ==
    (vibHist.reconfigured = 0 /\ vib.width = 0 /\ vib.delay >= 1) =>
        \A channel \in 1..Len(vibHist.output) :
            \A k \in 1..Len(vibHist.output[channel]) :
                vibHist.output[channel][k]
                  = IF k <= vib.delay THEN 0
                    ELSE vibHist.input[channel][k - vib.delay]

\* C27: in FrequencyDomain{B} mode every tail sample pushed during a process
\* call is popped again inside the same call.  For an input whose length is a
\* multiple of B the call does not panic, len() of the tail buffer after the
\* call equals len() before it (0 on a new engine), and the read and the write
\* cursor have advanced by the same amount modulo the capacity.
C27_ProcessKeepsTailLen ==
    [][(proc'.valid /\ Len(proc'.input) % mode.block_size = 0) =>
           /\ ~panicked'
           /\ len(buffer') = len(buffer)
           /\ fresh => len(buffer') = 0
           /\ capacity(buffer) > 0 =>
                  (buffer'.head - buffer.head + capacity(buffer)) % capacity(buffer)
                    = (buffer'.tail - buffer.tail + capacity(buffer))
                        % capacity(buffer)]_vars

\* A process call with B = 2 on two samples has left both cursors of a tail
\* buffer of capacity 2 one slot further, a pushed sample behind them, and
\* len() at the 1 an earlier flush had made it.
C27_Witness ==
    /\ proc.valid
    /\ ~panicked
    /\ mode.block_size = 2
    /\ Len(proc.input) = 2
    /\ Len(ir0) = 3
    /\ len(buffer) = 1
    /\ buffer.tail = 0
    /\ \E i \in 1..capacity(buffer) : buffer.buffer[i] # 0

\* C24: overlap-add accumulation in overlap_add_freq.  For every input block
\* i and every impulse-response block j, all len_i + len_j - 1 samples of
\* their linear convolution are added to the running output at positions
\* i * B + j * B + s, also when the last impulse-response block is shorter
\* than B.  Seen from the caller: the first process call of a new
\* FrequencyDomain{B} engine, on an input whose length is a multiple of B,
\* returns the first samples of the sum of all the placed pairwise
\* convolutions.
C24_PairwiseResultsAccumulated ==
    (proc.valid /\ proc.fresh /\ Len(proc.input) % mode.block_size = 0) =>
        /\ ~panicked
        /\ proc.output = OverlapAddReference(proc.input, ir0, mode.block_size,
                                             Len(proc.input))

\* C25: the block partitioner.  For a sequence s of n >= 0 samples and a block
\* size B >= 1, block_signals(s, B) returns ceil(n / B) blocks in order, each
\* of exactly B samples except possibly the last, of n - B * (ceil(n / B) - 1)
\* samples, a number in 1..B; the blocks concatenated are s; and the state of
\* the engine is as it was.
C25_BlocksPartitionTheInput ==
    blk.valid =>
        LET n == Len(blk.input)
            B == blk.block_size
            count == CeilDiv(n, B)
        IN  /\ Len(blk.blocks) = count
            /\ \A i \in 1..count :
                   Len(blk.blocks[i]) = IF i < count THEN B ELSE n - B * (count - 1)
            /\ count >= 1 => Len(blk.blocks[count]) \in 1..B
            /\ Concat(blk.blocks) = blk.input
            /\ impulse_response = ir0
            /\ buffer = RingBuffer_new(Len(ir0) - 1)
            /\ ~panicked

\* Five samples in blocks of two: three blocks, the last of one sample.
C25_Witness ==
    /\ blk.valid
    /\ blk.input = <<1, 0, 0, 1, 1>>
    /\ blk.block_size = 2
    /\ blk.blocks = << <<1, 0>>, <<0, 1>>, <<1>> >>

\* C26: in TimeDomain mode the output of process depends only on the current
\* input block and the impulse response.  Whatever process, flush and reset
\* calls came before, a process call (output as long as the input) writes
\* what a new engine with the same impulse response writes for that input; it
\* pushes exactly L - 1 values, the tail of the convolution, so that the write
\* cursor ends where it started, and it does not move the read cursor.
C26_OutputIgnoresHistory ==
    [][(proc'.valid /\ flushes' = <<>>) =>
           /\ ~panicked'
           /\ proc'.output
                = process(FastConvolver_new(ir0, TimeDomain), proc'.input,
                          Len(proc'.input)).output
           /\ buffer' = push_all(buffer,
                                 LinConvSlice(proc'.input, ir0, Len(proc'.input),
                                              Len(ir0) - 1))
           /\ buffer'.head = buffer.head
           /\ buffer'.tail = buffer.tail]_vars

\* An engine with a three-tap impulse response whose read cursor an earlier
\* flush had moved to slot 1 has processed [1, 1] and written [1, 2].
C26_Witness ==
    /\ proc.valid
    /\ ~proc.fresh
    /\ flushes = <<>>
    /\ ir0 = <<1, 1, 1>>
    /\ proc.input = <<1, 1>>
    /\ proc.output = <<1, 2>>
    /\ buffer.tail = 1
    /\ buffer.buffer = <<2, 1>>

=============================================================================
